---- MODULE Spec2Model ----
(***************************************************************************)
(* A model of the cashu-ts wallet engine (src/src/CashuWallet.ts).         *)
(*                                                                         *)
(* One wallet instance (keys, mint) runs one public operation at a time.   *)
(* Every operation is an async function: it runs synchronously up to the   *)
(* next `await` of a mint RPC, is suspended there, and is resumed by the   *)
(* mint's reply (a value or a thrown error).  Each action below is one     *)
(* such synchronous stretch.  rpcs is the list of requests the wallet has  *)
(* handed to the mint client, replies the list of answers it got back.     *)
(* A second operation may be in progress on the same wallet (other): the   *)
(* event loop runs one of the two at a time and may change over whenever   *)
(* the running one is suspended.                                           *)
(*                                                                         *)
(* Randomness (randomBytes, the blinding factor r) is modelled as a        *)
(* source of fresh nonces: the n-th draw of the operation yields nonce n.  *)
(* Curve points are modelled symbolically: a blinded message remembers the *)
(* secret and the r it was built from, a signature the key that signed it. *)
(***************************************************************************)
EXTENDS Integers, Sequences, FiniteSets, TLC

\* ---------------------------------------------------------------- bounds

\* longest proof list handed to send
MaxProofs == 3
\* largest amount asked of send
MaxAmount == 9
\* most entries of a decoded token
MaxEntries == 2
\* largest fee reserve (passed by the caller or answered by checkFees)
MaxFee == 5
\* longest proof list handed to payLnInvoice
MaxPayProofs == 2
\* longest proof list handed to checkProofsSpent
MaxCheckProofs == 3
\* longest base64 string body the conversions are applied to
MaxB64Len == 3

\* --------------------------------------------------------------- helpers

RECURSIVE SumSeq(_)
SumSeq(s) == IF s = <<>> THEN 0 ELSE Head(s) + SumSeq(Tail(s))

Amounts(ps) == [i \in 1..Len(ps) |-> ps[i].amount]

SumAmounts(ps) == SumSeq(Amounts(ps))

SeqsUpTo(S, n) == UNION {[1..k -> S] : k \in 0..n}

RECURSIVE Pow2(_)
Pow2(k) == IF k = 0 THEN 1 ELSE 2 * Pow2(k - 1)

\* ------------------------------------------------------- the environment

\* the url of the mint this wallet was constructed with, and two others
OwnMint == "mintA"
MintUrls == {"mintA", "mintB", "mintC"}

\* denominations of the proofs a caller may hold
Denoms == {1, 2, 4, 8}

\* the amounts a mint's keyset has a key for: the powers of two
KeyAmounts == {Pow2(k) : k \in 0..5}

\* MintKeys of the mint at url: amount -> public key (symbolic: who and what)
KeysOf(url) == [a \in KeyAmounts |-> <<url, a>>]

\* An unspent proof the caller already holds: the i-th of its list.
OldProof(i, a, url) ==
    [amount |-> a, secret |-> 0 - i,
     C |-> [Y |-> 0 - i, k |-> <<url, a>>, ok |-> TRUE], id |-> url]

ProofList(amts, url) == [i \in 1..Len(amts) |-> OldProof(i, amts[i], url)]

\* ------------------------------------------------ utils.ts and DHKE.ts

\* splitAmount: the binary decomposition of n, ascending
RECURSIVE SplitFrom(_, _)
SplitFrom(n, d) ==
    IF n <= 0 THEN <<>>
    ELSE IF n % 2 = 1 THEN <<d>> \o SplitFrom(n \div 2, 2 * d)
    ELSE SplitFrom(n \div 2, 2 * d)

splitAmount(n) == SplitFrom(n, 1)

\* dhke.blindMessage(secret) with blinding factor r: B_ = hashToCurve(secret) + r*G
blindMessage(secret, r) == [B_ |-> [Y |-> secret, r |-> r], r |-> r]

\* dhke.unblindSignature: C_ - r*K is the signature k*Y exactly when r is the
\* factor B_ was blinded with and K is the public key of the signing key
unblindSignature(C_, r, K) ==
    [Y |-> C_.Y, k |-> C_.k, ok |-> (C_.r = r /\ C_.k = K)]

\* dhke.constructProofs: zip promises, rs and secrets positionally; a promise
\* without a key for its amount, or without an r and a secret, throws
constructProofsThrows(promises, rs, secrets, ks) ==
    \/ Len(promises) > Len(rs)
    \/ Len(promises) > Len(secrets)
    \/ \E i \in 1..Len(promises) : promises[i].amount \notin DOMAIN ks

constructProofs(promises, rs, secrets, ks) ==
    [i \in 1..Len(promises) |->
        [amount |-> promises[i].amount,
         secret |-> secrets[i],
         C |-> unblindSignature(promises[i].C_, rs[i], ks[promises[i].amount]),
         id |-> promises[i].id]]

\* ------------------------------------------------------------- the mint

\* the mint at url signs one blinded output
MintSign(url, out) ==
    [amount |-> out.amount,
     C_ |-> [Y |-> out.B_.Y, r |-> out.B_.r, k |-> <<url, out.amount>>],
     id |-> url]

SignAll(url, outs) == [i \in 1..Len(outs) |-> MintSign(url, outs[i])]

\* the number of leading outputs that belong to fst: those summing to
\* total - amount (all outputs when no prefix does)
RECURSIVE FstLen(_, _)
FstLen(outs, keep) ==
    IF outs = <<>> \/ keep <= 0 THEN 0
    ELSE 1 + FstLen(Tail(outs), keep - Head(outs).amount)

\* How the mint may answer a split
SplitBehaviours == {"ok", "error", "swap", "nokey"}

\* an amount no keyset has a key for: the least one that is no power of two
NoKeyAmount == CHOOSE a \in 1..3 : a \notin KeyAmounts

SplitReply(url, payload, how) ==
    LET ps == SignAll(url, payload.outputs)
        n == FstLen(payload.outputs, SumAmounts(payload.outputs) - payload.amount)
        first == SubSeq(ps, 1, n)
        rest == SubSeq(ps, n + 1, Len(ps))
    IN  CASE how = "ok" -> [ok |-> TRUE, fst |-> first, snd |-> rest]
          [] how = "swap" -> [ok |-> TRUE, fst |-> rest, snd |-> first]
          [] how = "nokey" ->
                [ok |-> TRUE, fst |-> first,
                 snd |-> [i \in 1..Len(rest) |->
                            [rest[i] EXCEPT !.amount = NoKeyAmount]]]
          [] OTHER -> [ok |-> FALSE, error |-> "MintError"]

\* ------------------------------------------------------------- the state

VARIABLES
    keys,      \* this.keys
    mint,      \* this.mint.mintUrl
    pc,        \* where the running operation is suspended
    args,      \* the arguments of the running operation
    frame,     \* its local variables
    rnd,       \* random draws made so far
    rpcs,      \* requests handed to the mint client, in order
    replies,   \* the answers to them, in order: replies[i] answers rpcs[i]
    unblinds,  \* the calls of dhke.constructProofs made, in order
    result,    \* what the operation returned or threw
    persisted, \* what the wallet has written to storage that outlives a call
    other      \* a second operation on this wallet, suspended at an await

vars == <<keys, mint, pc, args, frame, rnd, rpcs, replies, unblinds, result,
          persisted, other>>

NoFrame == [op |-> "none"]
NoResult == [status |-> "pending"]

\* an operation that has not been called yet
IdleOperation ==
    [pc |-> "idle", args |-> [op |-> "none"], frame |-> NoFrame, rnd |-> 0,
     rpcs |-> <<>>, replies |-> <<>>, unblinds |-> <<>>, result |-> NoResult]

Init ==
    /\ keys = KeysOf(OwnMint)
    /\ mint = OwnMint
    /\ pc = "idle"
    /\ args = [op |-> "none"]
    /\ frame = NoFrame
    /\ rnd = 0
    /\ rpcs = <<>>
    /\ replies = <<>>
    /\ unblinds = <<>>
    /\ result = NoResult
    /\ persisted = <<>>
    /\ other = IdleOperation

\* a faulty variant of Throw: the error is swallowed and nothing is returned
ThrowSwallowed(e) == [status |-> "ok", value |-> <<>>]

Throw(e) == [status |-> "error", error |-> e]
Return(v) == [status |-> "ok", value |-> v]

\* An optional value (x?: T, T | undefined) is a sequence of at most one value.
undefined == <<>>
Some(x) == <<x>>

\* ------------------------------------------------- blinded message bundles

\* createRandomBlindedMessages(amount), the random source having made n draws
createRandomBlindedMessages(amount, n) ==
    LET amounts == splitAmount(amount)
    IN  [blindedMessages |->
            [i \in 1..Len(amounts) |->
                [amount |-> amounts[i], B_ |-> blindMessage(n + i, n + i).B_]],
         secrets |-> [i \in 1..Len(amounts) |-> n + i],
         rs |-> [i \in 1..Len(amounts) |-> blindMessage(n + i, n + i).r],
         amounts |-> amounts]

\* a faulty variant of createSplitPayload: the outputs are concatenated the other way
\* around, the sent ones first
createSplitPayloadReversed(amount1, amount2, proofsToSend, n) ==
    LET amount1BlindedMessages == createRandomBlindedMessages(amount1, n)
        amount2BlindedMessages ==
            createRandomBlindedMessages(amount2,
                                        n + Len(amount1BlindedMessages.secrets))
    IN  [payload |->
            [proofs |-> proofsToSend,
             amount |-> amount2,
             outputs |-> amount2BlindedMessages.blindedMessages
                            \o amount1BlindedMessages.blindedMessages],
         amount1BlindedMessages |-> amount1BlindedMessages,
         amount2BlindedMessages |-> amount2BlindedMessages]

\* createSplitPayload(amount1, amount2, proofsToSend): keep amount1, send amount2
createSplitPayload(amount1, amount2, proofsToSend, n) ==
    LET amount1BlindedMessages == createRandomBlindedMessages(amount1, n)
        amount2BlindedMessages ==
            createRandomBlindedMessages(amount2,
                                        n + Len(amount1BlindedMessages.secrets))
    IN  [payload |->
            [proofs |-> proofsToSend,
             amount |-> amount2,
             outputs |-> amount1BlindedMessages.blindedMessages
                            \o amount2BlindedMessages.blindedMessages],
         amount1BlindedMessages |-> amount1BlindedMessages,
         amount2BlindedMessages |-> amount2BlindedMessages]

\* a faulty variant of splitReceive: the kept and the sent amount change places
splitReceiveSwapped(amount, amountAvailable) ==
    [amount1 |-> amount, amount2 |-> amountAvailable - amount]

\* a faulty variant of splitReceive: the sent amount is not taken off the kept amount
splitReceiveKeepAll(amount, amountAvailable) ==
    [amount1 |-> amountAvailable, amount2 |-> amount]

splitReceive(amount, amountAvailable) ==
    [amount1 |-> amountAvailable - amount, amount2 |-> amount]

\* The two constructProofs calls that follow a split, of send and of
\* receiveTokenEntry alike: fst with the bundle made for amount1, snd with the
\* one made for amount2, both with the keyset ks.  j is the request answered.
\* The second call is not made when the first throws.
UnblindSplit(reply, sp, ks, j) ==
    LET b1 == sp.amount1BlindedMessages
        b2 == sp.amount2BlindedMessages
        c1 == [rpc |-> j, half |-> "fst", promises |-> reply.fst,
               rs |-> b1.rs, secrets |-> b1.secrets, keys |-> ks]
        c2 == [rpc |-> j, half |-> "snd", promises |-> reply.snd,
               rs |-> b2.rs, secrets |-> b2.secrets, keys |-> ks]
        t1 == constructProofsThrows(c1.promises, c1.rs, c1.secrets, ks)
        t2 == constructProofsThrows(c2.promises, c2.rs, c2.secrets, ks)
    IN  [calls |-> IF t1 THEN <<c1>> ELSE <<c1, c2>>,
         throws |-> t1 \/ t2,
         proofs1 |-> IF t1 THEN <<>>
                     ELSE constructProofs(c1.promises, c1.rs, c1.secrets, ks),
         proofs2 |-> IF t1 \/ t2 THEN <<>>
                     ELSE constructProofs(c2.promises, c2.rs, c2.secrets, ks)]

\* ------------------------------------------------------------------ send

\* a faulty variant of Enough: one proof too many is taken when the sum is reached exactly
EnoughStrict(amountAvailable, amount) == amountAvailable > amount

\* a faulty variant of Enough: every proof is selected, none is left as change
EnoughNever(amountAvailable, amount) == FALSE

\* the test of the forEach of send: the proofs taken so far cover the amount
Enough(amountAvailable, amount) == amountAvailable >= amount

\* the forEach of send: the state (amountAvailable, proofsToSend, change)
\* after the first n proofs
RECURSIVE Select(_, _, _)
Select(amount, proofs, n) ==
    IF n = 0 THEN [amountAvailable |-> 0, proofsToSend |-> <<>>, change |-> <<>>]
    ELSE LET s == Select(amount, proofs, n - 1)
             proof == proofs[n]
         IN  IF Enough(s.amountAvailable, amount)
             THEN [s EXCEPT !.change = Append(@, proof)]
             ELSE [s EXCEPT !.amountAvailable = @ + proof.amount,
                            !.proofsToSend = Append(@, proof)]

\* a faulty variant of NeedsSplit: an exact selection is sent through the mint as well
NeedsSplitAlways(amount, amountAvailable) == amount <= amountAvailable

\* the two tests of send after the selection
InsufficientFunds(amount, amountAvailable) == amount > amountAvailable

NeedsSplit(amount, amountAvailable) == amount < amountAvailable

\* send(amount, proofs) up to its await of mint.split, or to its end
SendCall(amount, proofs) ==
    /\ pc = "idle"
    /\ args' = [op |-> "send", amount |-> amount, proofs |-> proofs]
    /\ LET s == Select(amount, proofs, Len(proofs))
       IN  IF InsufficientFunds(amount, s.amountAvailable)
           THEN /\ result' = Throw("Not enough funds available")
                /\ frame' = [op |-> "send", sel |-> s]
                /\ pc' = "done"
                /\ UNCHANGED <<rnd, rpcs>>
           ELSE IF NeedsSplit(amount, s.amountAvailable)
           THEN LET a == splitReceive(amount, s.amountAvailable)
                    sp == createSplitPayload(a.amount1, a.amount2,
                                             s.proofsToSend, rnd)
                IN  /\ frame' = [op |-> "send", sel |-> s, amounts |-> a, split |-> sp]
                    /\ rnd' = rnd + Len(sp.payload.outputs)
                    /\ rpcs' = Append(rpcs, [rpc |-> "split", url |-> mint,
                                             payload |-> sp.payload])
                    /\ pc' = "send_split"
                    /\ UNCHANGED result
           ELSE /\ result' = Return([returnChange |-> s.change,
                                     send |-> s.proofsToSend])
                /\ frame' = [op |-> "send", sel |-> s]
                /\ pc' = "done"
                /\ UNCHANGED <<rnd, rpcs>>
    /\ UNCHANGED <<keys, mint, persisted, other, replies, unblinds>>

\* send resumed by the answer to its split
SendSplitReply(how) ==
    /\ pc = "send_split"
    /\ LET reply == SplitReply(mint, frame.split.payload, how)
           u == UnblindSplit(reply, frame.split, keys, Len(rpcs))
       IN  /\ replies' = Append(replies, reply)
           /\ IF ~reply.ok
              THEN /\ result' = Throw(reply.error)
                   /\ UNCHANGED unblinds
              ELSE /\ unblinds' = unblinds \o u.calls
                   /\ result' =
                        IF u.throws THEN Throw("CryptoError")
                        ELSE Return([returnChange |-> u.proofs1 \o frame.sel.change,
                                     send |-> u.proofs2])
    /\ pc' = "done"
    /\ UNCHANGED <<keys, mint, persisted, other, args, frame, rnd, rpcs>>

\* --------------------------------------------------------------- receive

\* cleanToken (utils.ts): drop the entries without proofs, merge the entries
\* of one mint into the first of them, drop the repeated proofs of an entry
RECURSIVE Dedupe(_)
Dedupe(ps) ==
    IF ps = <<>> THEN <<>>
    ELSE LET init == SubSeq(ps, 1, Len(ps) - 1)
             last == ps[Len(ps)]
         IN  IF \E i \in 1..Len(init) :
                    init[i].secret = last.secret /\ init[i].C = last.C
             THEN Dedupe(init)
             ELSE Append(Dedupe(init), last)

RECURSIVE ProofsOfMint(_, _)
ProofsOfMint(token, url) ==
    IF token = <<>> THEN <<>>
    ELSE (IF Head(token).mint = url THEN Head(token).proofs ELSE <<>>)
            \o ProofsOfMint(Tail(token), url)

RECURSIVE CleanFrom(_, _)
CleanFrom(token, i) ==
    IF i > Len(token) THEN <<>>
    ELSE IF \/ Len(token[i].proofs) = 0
            \/ \E j \in 1..(i - 1) :
                    token[j].mint = token[i].mint /\ Len(token[j].proofs) > 0
         THEN CleanFrom(token, i + 1)
         ELSE <<[mint |-> token[i].mint,
                 proofs |-> Dedupe(ProofsOfMint(token, token[i].mint))]>>
                 \o CleanFrom(token, i + 1)

cleanToken(token) == CleanFrom(token, 1)

\* a faulty variant of SeedKeys: the keyset cache of receive starts empty
SeedKeysEmpty(url, ks) == [u \in {} |-> ks]

\* a faulty variant of SeedKeys: the keyset cache is kept on the wallet, where
\* an operation suspended in receive has left the keys it fetched
SeedKeysShared(url, ks) ==
    IF "susp" \in DOMAIN other /\ other.susp.frame.op = "receive"
    THEN other.susp.frame.mintKeys
    ELSE [u \in {url} |-> ks]

\* new Map([[this.mint.mintUrl, this.keys]])
SeedKeys(url, ks) == [u \in {url} |-> ks]

\* mintKeys.set(url, ks) unless mintKeys.has(url)
SetKeys(mintKeys, url, ks) ==
    IF url \in DOMAIN mintKeys THEN mintKeys
    ELSE [u \in DOMAIN mintKeys \cup {url} |->
            IF u = url THEN ks ELSE mintKeys[u]]

\* a faulty variant of ReceiveTokenEntryStart: the split goes to the wallet's
\* own mint
ReceiveTokenEntryStartOwnMint(fr, ks, n) ==
    LET tokenEntry == fr.token[fr.i]
        amount == SumAmounts(tokenEntry.proofs)
        sp == createSplitPayload(0, amount, tokenEntry.proofs, n)
    IN  [pc |-> "receive_split",
         frame |-> [fr EXCEPT !.entryKeys = ks, !.split = sp,
                              !.amounts = [amount1 |-> 0, amount2 |-> amount]],
         rpc |-> <<[rpc |-> "split", url |-> mint, payload |-> sp.payload]>>,
         rnd |-> n + Len(sp.payload.outputs)]

\* receiveTokenEntry(tokenEntry, keys) up to its await of CashuMint.split
ReceiveTokenEntryStart(fr, ks, n) ==
    LET tokenEntry == fr.token[fr.i]
        amount == SumAmounts(tokenEntry.proofs)
        sp == createSplitPayload(0, amount, tokenEntry.proofs, n)
    IN  [pc |-> "receive_split",
         frame |-> [fr EXCEPT !.entryKeys = ks, !.split = sp,
                              !.amounts = [amount1 |-> 0, amount2 |-> amount]],
         rpc |-> <<[rpc |-> "split", url |-> tokenEntry.mint,
                    payload |-> sp.payload]>>,
         rnd |-> n + Len(sp.payload.outputs)]

\* the for loop of receive from entry fr.i on, up to the next await or the return
RECURSIVE ReceiveLoop(_, _)
ReceiveLoop(fr, n) ==
    IF fr.i > Len(fr.token)
    THEN [pc |-> "done", frame |-> fr, rpc |-> <<>>, rnd |-> n]
    ELSE LET tokenEntry == fr.token[fr.i]
         IN  IF Len(tokenEntry.proofs) = 0
             THEN ReceiveLoop([fr EXCEPT !.i = @ + 1], n)
             ELSE IF tokenEntry.mint \in DOMAIN fr.mintKeys
             THEN ReceiveTokenEntryStart(fr, fr.mintKeys[tokenEntry.mint], n)
             ELSE [pc |-> "receive_keys", frame |-> fr,
                   rpc |-> <<[rpc |-> "getKeys", url |-> tokenEntry.mint]>>,
                   rnd |-> n]

\* a faulty variant of ReceiveResult: tokensWithErrors is set even when nothing failed
ReceiveResultAlwaysErrors(fr) ==
    Return([token |-> [token |-> fr.tokenEntries],
            tokensWithErrors |-> Some([token |-> fr.tokenEntriesWithError])])

\* the return statement of receive
ReceiveResult(fr) ==
    Return([token |-> [token |-> fr.tokenEntries],
            tokensWithErrors |->
                IF Len(fr.tokenEntriesWithError) > 0
                THEN Some([token |-> fr.tokenEntriesWithError])
                ELSE undefined])

\* receive runs on to step, its next await or its return
ReceiveGoto(step) ==
    /\ pc' = step.pc
    /\ frame' = step.frame
    /\ rpcs' = rpcs \o step.rpc
    /\ rnd' = step.rnd
    /\ result' = IF step.pc = "done" THEN ReceiveResult(step.frame) ELSE result

\* receive(encodedToken), decoded being what getDecodedToken makes of it
ReceiveCall(decoded) ==
    /\ pc = "idle"
    /\ args' = [op |-> "receive", decoded |-> decoded]
    /\ ReceiveGoto(ReceiveLoop(
            [op |-> "receive",
             token |-> cleanToken(decoded),
             i |-> 1,
             tokenEntries |-> <<>>,
             tokenEntriesWithError |-> <<>>,
             mintKeys |-> SeedKeys(mint, keys),
             entryKeys |-> <<>>,
             split |-> <<>>,
             amounts |-> <<>>], rnd))
    /\ UNCHANGED <<keys, mint, persisted, other, replies, unblinds>>

\* How a mint may answer getKeys
KeysBehaviours == {"ok", "error"}

KeysReply(url, how) ==
    IF how = "ok" THEN [ok |-> TRUE, keys |-> KeysOf(url)]
    ELSE [ok |-> FALSE, error |-> "NetworkError"]

\* receive resumed by the answer to CashuMint.getKeys
ReceiveKeysReply(how) ==
    /\ pc = "receive_keys"
    /\ LET tokenEntry == frame.token[frame.i]
           reply == KeysReply(tokenEntry.mint, how)
       IN  /\ replies' = Append(replies, reply)
           /\ IF reply.ok
              THEN ReceiveGoto(ReceiveTokenEntryStart(
                        [frame EXCEPT !.mintKeys =
                            SetKeys(@, tokenEntry.mint, reply.keys)],
                        reply.keys, rnd))
              ELSE ReceiveGoto(ReceiveLoop(
                        [frame EXCEPT !.tokenEntriesWithError =
                                            Append(@, tokenEntry),
                                      !.i = @ + 1], rnd))
    /\ UNCHANGED <<keys, mint, persisted, other, args, unblinds>>

\* receive resumed by the answer to the split of receiveTokenEntry
ReceiveSplitReply(how) ==
    /\ pc = "receive_split"
    /\ LET tokenEntry == frame.token[frame.i]
           reply == SplitReply(tokenEntry.mint, frame.split.payload, how)
           u == UnblindSplit(reply, frame.split, frame.entryKeys, Len(rpcs))
           proofsWithError == IF ~reply.ok \/ u.throws
                              THEN tokenEntry.proofs ELSE <<>>
           proofs == IF ~reply.ok \/ u.throws THEN <<>>
                     ELSE u.proofs1 \o u.proofs2
       IN  /\ replies' = Append(replies, reply)
           /\ unblinds' = IF reply.ok THEN unblinds \o u.calls ELSE unblinds
           /\ ReceiveGoto(ReceiveLoop(
                IF Len(proofsWithError) > 0
                THEN [frame EXCEPT !.tokenEntriesWithError =
                                        Append(@, tokenEntry),
                                   !.i = @ + 1]
                ELSE [frame EXCEPT !.tokenEntries =
                                        Append(@, [mint |-> tokenEntry.mint,
                                                   proofs |-> proofs]),
                                   !.i = @ + 1], rnd))
    /\ UNCHANGED <<keys, mint, persisted, other, args>>

\* the proofs a token entry may carry
EntryProofs(url) ==
    {<<>>, <<OldProof(1, 1, url)>>, <<OldProof(2, 2, url), OldProof(1, 1, url)>>}

EntryChoices ==
    UNION {{[mint |-> url, proofs |-> ps] : ps \in EntryProofs(url)} :
                url \in MintUrls}

DecodedTokens == SeqsUpTo(EntryChoices, MaxEntries)

\* ---------------------------------------------------------- payLnInvoice

\* a faulty variant of CeilLog2: the logarithm is rounded down
RECURSIVE FloorLog2(_)
FloorLog2(f) == IF f <= 1 THEN 0 ELSE 1 + FloorLog2(f \div 2)

\* Math.ceil(Math.log2(f)) for an integer f >= 1, by halving (Math.log2 is
\* exact on the powers of two, so the rounding up is that of the real number)
RECURSIVE CeilLog2(_)
CeilLog2(f) == IF f <= 1 THEN 0 ELSE 1 + CeilLog2((f + 1) \div 2)

\* the number of rounds of the loop of createBlankOutputs: for feeReserve = 0
\* the count is Math.ceil(-Infinity) = -Infinity and the body never runs
BlankCount(feeReserve) == IF feeReserve < 1 THEN 0 ELSE CeilLog2(feeReserve)

\* createBlankOutputs(feeReserve), the random source having made n draws
createBlankOutputs(feeReserve, n) ==
    LET count == BlankCount(feeReserve)
    IN  [blindedMessages |->
            [i \in 1..count |->
                [amount |-> 0, B_ |-> blindMessage(n + i, n + i).B_]],
         secrets |-> [i \in 1..count |-> n + i],
         rs |-> [i \in 1..count |-> blindMessage(n + i, n + i).r]]

createPaymentPayload(invoice, proofs) == [pr |-> invoice, proofs |-> proofs]

\* the test !feeReserve of payLnInvoice: undefined and 0 are both falsy
FeeReserveMissing(feeReserve) ==
    feeReserve = undefined \/ feeReserve[1] = 0

\* payLnInvoice from createBlankOutputs to its await of mint.melt
PayMelt(fr, feeReserve) ==
    LET blank == createBlankOutputs(feeReserve, rnd)
    IN  /\ frame' = [fr EXCEPT !.feeReserve = Some(feeReserve), !.blank = blank]
        /\ rnd' = rnd + Len(blank.secrets)
        /\ rpcs' = Append(rpcs,
                [rpc |-> "melt", url |-> mint,
                 payload |-> [pr |-> fr.paymentPayload.pr,
                              proofs |-> fr.paymentPayload.proofs,
                              outputs |-> blank.blindedMessages]])
        /\ pc' = "pay_melt"

\* the body of payLnInvoice up to its first await
PayStart(invoice, proofsToSend, feeReserve) ==
    /\ LET fr == [op |-> "pay",
                  paymentPayload |-> createPaymentPayload(invoice, proofsToSend),
                  feeReserve |-> undefined,
                  blank |-> <<>>]
       IN  IF FeeReserveMissing(feeReserve)
           THEN /\ frame' = fr
                /\ rpcs' = Append(rpcs, [rpc |-> "checkFees", url |-> mint,
                                         payload |-> [pr |-> invoice]])
                /\ pc' = "pay_fee"
                /\ UNCHANGED rnd
           ELSE PayMelt(fr, feeReserve[1])
    /\ UNCHANGED <<keys, mint, persisted, other, replies, unblinds, result>>

\* payLnInvoice(invoice, proofsToSend, feeReserve?) up to its first await
PayCall(invoice, proofsToSend, feeReserve) ==
    /\ pc = "idle"
    /\ args' = [op |-> "pay", invoice |-> invoice,
                proofsToSend |-> proofsToSend, feeReserve |-> feeReserve]
    /\ PayStart(invoice, proofsToSend, feeReserve)

\* a faulty variant of OwnEntry: the entries of every mint are taken
OwnEntryAny(x, url) == TRUE

\* the filter of payLnInvoiceWithToken: x.mint === this.mint.mintUrl
OwnEntry(x, url) == x.mint = url

\* decodedToken.token.filter(...).flatMap((t) => t.proofs)
RECURSIVE FilterFlatMap(_, _)
FilterFlatMap(token, url) ==
    IF token = <<>> THEN <<>>
    ELSE (IF OwnEntry(Head(token), url) THEN Head(token).proofs ELSE <<>>)
            \o FilterFlatMap(Tail(token), url)

\* payLnInvoiceWithToken(invoice, token), decoded being what getDecodedToken
\* makes of token, up to the first await of payLnInvoice
PayWithTokenCall(invoice, decoded) ==
    /\ pc = "idle"
    /\ args' = [op |-> "payWithToken", invoice |-> invoice, decoded |-> decoded]
    /\ PayStart(invoice, FilterFlatMap(decoded, mint), undefined)

\* payLnInvoice resumed by the answer to checkFees: a fee, or an error
PayFeeReply(ok, fee) ==
    /\ pc = "pay_fee"
    /\ IF ok
       THEN /\ replies' = Append(replies, [ok |-> TRUE, fee |-> fee])
            /\ PayMelt(frame, fee)
            /\ UNCHANGED result
       ELSE /\ replies' = Append(replies, [ok |-> FALSE, error |-> "MintError"])
            /\ result' = Throw("MintError")
            /\ pc' = "done"
            /\ UNCHANGED <<frame, rnd, rpcs>>
    /\ UNCHANGED <<keys, mint, persisted, other, args, unblinds>>

\* How the mint may answer a melt: an error; not paid; an answer without the
\* paid field; paid, with change promises on the first n blank outputs (no
\* change field when n = 0), the i-th being worth 2^(i-1); paid, with change
\* promises of an amount the keyset has no key for
MeltBehaviours == {"error", "unpaid", "nofield", "paid", "nokey"}

MeltReply(url, payload, how, n) ==
    CASE how = "error" -> [ok |-> FALSE, error |-> "MintError"]
      [] how = "unpaid" ->
            [ok |-> TRUE, paid |-> Some(FALSE), preimage |-> undefined,
             change |-> undefined]
      [] how = "nofield" ->
            [ok |-> TRUE, paid |-> undefined, preimage |-> undefined,
             change |-> undefined]
      [] OTHER ->
            [ok |-> TRUE, paid |-> Some(TRUE), preimage |-> Some("pre"),
             change |->
                IF n = 0 THEN undefined
                ELSE Some([i \in 1..n |->
                        MintSign(url, [payload.outputs[i] EXCEPT
                                            !.amount = IF how = "nokey"
                                                       THEN NoKeyAmount
                                                       ELSE Pow2(i - 1)])])]

\* a faulty variant of IsPaid: every answered melt counts as paid
IsPaidAlways(payData) == TRUE

\* payData.paid ?? false
IsPaid(payData) == IF payData.paid = undefined THEN FALSE ELSE payData.paid[1]

\* payLnInvoice resumed by the answer to its melt
PayMeltReply(how, n) ==
    /\ pc = "pay_melt"
    /\ n <= Len(frame.blank.secrets)
    /\ how \notin {"paid", "nokey"} => n = 0
    /\ how = "nokey" => n > 0
    /\ LET payData == MeltReply(mint, rpcs[Len(rpcs)].payload, how, n)
       IN  /\ replies' = Append(replies, payData)
           /\ IF ~payData.ok
              THEN /\ result' = Throw(payData.error)
                   /\ UNCHANGED unblinds
              ELSE IF payData.change = undefined
              THEN /\ result' = Return(
                        [isPaid |-> IsPaid(payData),
                         preimage |-> payData.preimage,
                         change |-> <<>>])
                   /\ UNCHANGED unblinds
              ELSE /\ unblinds' = Append(unblinds,
                        [rpc |-> Len(rpcs), half |-> "change",
                         promises |-> payData.change[1],
                         rs |-> frame.blank.rs,
                         secrets |-> frame.blank.secrets, keys |-> keys])
                   /\ result' =
                        IF constructProofsThrows(payData.change[1], frame.blank.rs,
                                                 frame.blank.secrets, keys)
                        THEN Throw("CryptoError")
                        ELSE Return(
                            [isPaid |-> IsPaid(payData),
                             preimage |-> payData.preimage,
                             change |-> constructProofs(payData.change[1],
                                            frame.blank.rs, frame.blank.secrets,
                                            keys)])
    /\ pc' = "done"
    /\ UNCHANGED <<keys, mint, persisted, other, args, frame, rnd, rpcs>>

\* --------------------------------------------------------- requestTokens

\* How the mint may answer a mint request: promises on the outputs sent; an
\* error; promises of an amount the keyset has no key for
MintBehaviours == {"ok", "error", "nokey"}

MintReply(url, payload, how) ==
    LET ps == SignAll(url, payload.outputs)
    IN  CASE how = "ok" -> [ok |-> TRUE, promises |-> ps]
          [] how = "nokey" ->
                [ok |-> TRUE,
                 promises |-> [i \in 1..Len(ps) |->
                                [ps[i] EXCEPT !.amount = NoKeyAmount]]]
          [] OTHER -> [ok |-> FALSE, error |-> "MintError"]

\* requestTokens(amount, hash) up to its await of mint.mint
RequestTokensCall(amount, hash) ==
    /\ pc = "idle"
    /\ args' = [op |-> "requestTokens", amount |-> amount, hash |-> hash]
    /\ LET b == createRandomBlindedMessages(amount, rnd)
       IN  /\ frame' = [op |-> "requestTokens", blinded |-> b]
           /\ rnd' = rnd + Len(b.secrets)
           /\ rpcs' = Append(rpcs, [rpc |-> "mint", url |-> mint,
                                    payload |-> [outputs |-> b.blindedMessages],
                                    hash |-> hash])
    /\ pc' = "mint_wait"
    /\ UNCHANGED <<keys, mint, persisted, other, replies, unblinds, result>>

\* requestTokens resumed by the answer to its mint request
RequestTokensReply(how) ==
    /\ pc = "mint_wait"
    /\ LET reply == MintReply(mint, rpcs[Len(rpcs)].payload, how)
           b == frame.blinded
       IN  /\ replies' = Append(replies, reply)
           /\ IF ~reply.ok
              THEN /\ result' = Throw(reply.error)
                   /\ UNCHANGED unblinds
              ELSE /\ unblinds' = Append(unblinds,
                        [rpc |-> Len(rpcs), half |-> "mint",
                         promises |-> reply.promises,
                         rs |-> b.rs, secrets |-> b.secrets, keys |-> keys])
                   /\ result' =
                        IF constructProofsThrows(reply.promises, b.rs, b.secrets,
                                                 keys)
                        THEN Throw("CryptoError")
                        ELSE Return(constructProofs(reply.promises, b.rs,
                                                    b.secrets, keys))
    /\ pc' = "done"
    /\ UNCHANGED <<keys, mint, persisted, other, args, frame, rnd, rpcs>>

\* the payment hashes requestTokens may be called with
Hashes == {"h1"}

\* ------------------------------------------------------ checkProofsSpent

\* a faulty variant of SecretOnly: the whole proof is sent
SecretOnlyWholeProof(p) == p

\* (p) => ({ secret: p.secret })
SecretOnly(p) == [secret |-> p.secret]

\* a faulty variant of NotSpendable: the filter keeps the spendable proofs
NotSpendableInverted(spendable, i) == spendable[i]

\* the filter of checkProofsSpent: !spendable[i]
NotSpendable(spendable, i) == ~spendable[i]

\* proofs.filter((_, i) => !spendable[i]) over the first n proofs
RECURSIVE FilterSpent(_, _, _)
FilterSpent(proofs, spendable, n) ==
    IF n = 0 THEN <<>>
    ELSE IF NotSpendable(spendable, n)
         THEN Append(FilterSpent(proofs, spendable, n - 1), proofs[n])
         ELSE FilterSpent(proofs, spendable, n - 1)

\* checkProofsSpent(proofs) up to its await of mint.check
CheckCall(proofs) ==
    /\ pc = "idle"
    /\ args' = [op |-> "check", proofs |-> proofs]
    /\ frame' = [op |-> "check",
                 payload |-> [proofs |-> [i \in 1..Len(proofs) |->
                                            SecretOnly(proofs[i])]]]
    /\ rpcs' = Append(rpcs, [rpc |-> "check", url |-> mint,
                             payload |-> frame'.payload])
    /\ pc' = "check_wait"
    /\ UNCHANGED <<keys, mint, persisted, other, rnd, replies, unblinds, result>>

\* the mint's answer to check: one flag per proof sent, or an error
CheckReplies(payload) ==
    {[ok |-> TRUE, spendable |-> sp] : sp \in [1..Len(payload.proofs) -> BOOLEAN]}
        \cup {[ok |-> FALSE, error |-> "MintError"]}

\* checkProofsSpent resumed by the answer to its check
CheckReply ==
    /\ pc = "check_wait"
    /\ \E reply \in CheckReplies(frame.payload) :
        /\ replies' = Append(replies, reply)
        /\ result' = IF reply.ok
                     THEN Return(FilterSpent(args.proofs, reply.spendable,
                                             Len(args.proofs)))
                     ELSE Throw(reply.error)
    /\ pc' = "done"
    /\ UNCHANGED <<keys, mint, persisted, other, args, frame, rnd, rpcs, unblinds>>

\* what checkProofsSpent may be called with: whole proofs, or bare secrets
CheckInputs ==
    {ProofList(amts, OwnMint) : amts \in SeqsUpTo({1, 2}, MaxCheckProofs)}
        \cup {[i \in 1..n |-> [secret |-> 0 - i]] : n \in 1..MaxCheckProofs}

\* what payLnInvoice may be called with
Invoices == {"lnbc1", "lnbc2"}
\* the invoice payLnInvoiceWithToken is called with
TokenInvoice == "lnbc1"
PayInputs == SeqsUpTo({1, 2}, MaxPayProofs)
FeeReserves == {undefined} \cup {Some(f) : f \in 0..MaxFee}

SendInputs == SeqsUpTo(Denoms, MaxProofs)

Next ==
    \/ \E amount \in 0..MaxAmount, amts \in SendInputs :
            SendCall(amount, ProofList(amts, OwnMint))
    \/ \E how \in SplitBehaviours : SendSplitReply(how)
    \/ \E decoded \in DecodedTokens : ReceiveCall(decoded)
    \/ \E how \in KeysBehaviours : ReceiveKeysReply(how)
    \/ \E how \in SplitBehaviours : ReceiveSplitReply(how)
    \/ \E invoice \in Invoices, amts \in PayInputs, feeReserve \in FeeReserves :
            PayCall(invoice, ProofList(amts, OwnMint), feeReserve)
    \/ \E ok \in BOOLEAN, fee \in 0..MaxFee :
            PayFeeReply(ok, IF ok THEN fee ELSE 0)
    \/ \E how \in MeltBehaviours, n \in 0..MaxFee : PayMeltReply(how, n)
    \/ \E proofs \in CheckInputs : CheckCall(proofs)
    \/ CheckReply
    \/ \E amount \in 0..MaxAmount, hash \in Hashes : RequestTokensCall(amount, hash)
    \/ \E how \in MintBehaviours : RequestTokensReply(how)
    \/ \E decoded \in DecodedTokens : PayWithTokenCall(TokenInvoice, decoded)

Spec == Init /\ [][Next]_vars

\* ------------------------------------------------------------- base64.ts
\* A string is the sequence of its characters.

\* str.replace(/a/g, b): every a becomes b
ReplaceAll(str, a, b) == [i \in 1..Len(str) |-> IF str[i] = a THEN b ELSE str[i]]

\* str.split(ch)[0]: what precedes the first ch, all of str when it has none
RECURSIVE SplitFirst(_, _)
SplitFirst(str, ch) ==
    IF str = <<>> \/ Head(str) = ch THEN <<>>
    ELSE <<Head(str)>> \o SplitFirst(Tail(str), ch)

base64urlToBase64(str) == ReplaceAll(ReplaceAll(str, "-", "+"), "_", "/")

\* a faulty variant of base64urlFromBase64: the slashes are left as they are
base64urlFromBase64KeepSlash(str) == SplitFirst(ReplaceAll(str, "+", "-"), "=")

base64urlFromBase64(str) ==
    SplitFirst(ReplaceAll(ReplaceAll(str, "+", "-"), "/", "_"), "=")

\* characters of the standard alphabet: a letter of each case, a digit, and
\* the two that base64url replaces
Base64Chars == {"A", "z", "0", "+", "/"}
\* the same of the url alphabet
Base64urlChars == {"A", "z", "0", "-", "_"}
\* trailing padding of a standard base64 string
Paddings == {<<>>, <<"=">>, <<"=", "=">>}

\* the strings the two functions are applied to: standard base64 with its
\* padding, and unpadded base64url
Base64Inputs ==
    {[op |-> "base64", kind |-> "std", body |-> b, str |-> b \o pad] :
            b \in SeqsUpTo(Base64Chars, MaxB64Len), pad \in Paddings}
        \cup {[op |-> "base64", kind |-> "url", body |-> b, str |-> b] :
                b \in SeqsUpTo(Base64urlChars, MaxB64Len)}

InitBase64 ==
    /\ keys = KeysOf(OwnMint)
    /\ mint = OwnMint
    /\ pc = "base64"
    /\ args \in Base64Inputs
    /\ frame = [op |-> "base64", str |-> args.str, applied |-> <<>>]
    /\ rnd = 0
    /\ rpcs = <<>>
    /\ replies = <<>>
    /\ unblinds = <<>>
    /\ result = NoResult
    /\ persisted = <<>>
    /\ other = IdleOperation

\* the string at hand goes through base64urlFromBase64
FromBase64 ==
    /\ pc = "base64"
    /\ Len(frame.applied) < 2
    /\ frame' = [frame EXCEPT !.str = base64urlFromBase64(@),
                              !.applied = Append(@, "from")]
    /\ UNCHANGED <<keys, mint, persisted, other, pc, args, rnd, rpcs, replies,
                   unblinds, result>>

\* the string at hand goes through base64urlToBase64
ToBase64 ==
    /\ pc = "base64"
    /\ Len(frame.applied) < 2
    /\ frame' = [frame EXCEPT !.str = base64urlToBase64(@),
                              !.applied = Append(@, "to")]
    /\ UNCHANGED <<keys, mint, persisted, other, pc, args, rnd, rpcs, replies,
                   unblinds, result>>

NextBase64 == FromBase64 \/ ToBase64

SpecBase64 == InitBase64 /\ [][NextBase64]_vars

\* ------------------------------------------- two operations on one wallet
\* An operation is called and runs alone to its end (other.cur = "solo").
\* The same call is then made again (X) while a second operation (Y) is in
\* progress on the same wallet: the event loop runs one of the two up to its
\* next await and may then change over to the other. What an async method
\* keeps across an await is its own (pc, args, frame); this.keys and
\* this.mint belong to the wallet and are shared. X gets the answers and the
\* random values it got when alone; Y's random values are other ones.

\* where Y's random values start: beyond those one operation draws
SecondStream == MaxAmount + MaxFee

\* the operation in the main variables
Running ==
    [pc |-> pc, args |-> args, frame |-> frame, rnd |-> rnd, rpcs |-> rpcs,
     replies |-> replies, unblinds |-> unblinds, result |-> result]

\* ctx is continued in the main variables
Resume(ctx) ==
    /\ pc' = ctx.pc
    /\ args' = ctx.args
    /\ frame' = ctx.frame
    /\ rnd' = ctx.rnd
    /\ rpcs' = ctx.rpcs
    /\ replies' = ctx.replies
    /\ unblinds' = ctx.unblinds
    /\ result' = ctx.result

InitConc ==
    /\ keys = KeysOf(OwnMint)
    /\ mint = OwnMint
    /\ persisted = <<>>
    /\ pc = "idle"
    /\ args = [op |-> "none"]
    /\ frame = NoFrame
    /\ rnd = 0
    /\ rpcs = <<>>
    /\ replies = <<>>
    /\ unblinds = <<>>
    /\ result = NoResult
    /\ other = [cur |-> "solo", solo |-> IdleOperation, susp |-> IdleOperation,
                seen |-> 0, mixed |-> FALSE]

\* the proofs the caller holds for the running operation: those of Y are not
\* those of X
ConcOffset == IF other.cur = "Y" THEN MaxProofs ELSE 0
ConcProofs ==
    <<OldProof(ConcOffset + 1, 2, OwnMint), OldProof(ConcOffset + 2, 1, OwnMint)>>
ConcEntry(url) == [mint |-> url, proofs |-> <<OldProof(ConcOffset + 1, 1, url)>>]
ConcTokens == {<<ConcEntry("mintB")>>, <<ConcEntry(OwnMint), ConcEntry("mintB")>>}
ConcAmounts == {1, 2}
ConcFeeReserves == {undefined, Some(2)}
ConcFees == {0, 2}

\* one step of the running operation
NextRunning ==
    \/ \E amount \in ConcAmounts : SendCall(amount, ConcProofs)
    \/ \E how \in SplitBehaviours : SendSplitReply(how)
    \/ \E decoded \in ConcTokens : ReceiveCall(decoded)
    \/ \E how \in KeysBehaviours : ReceiveKeysReply(how)
    \/ \E how \in SplitBehaviours : ReceiveSplitReply(how)
    \/ \E feeReserve \in ConcFeeReserves :
            PayCall(TokenInvoice, SubSeq(ConcProofs, 1, 1), feeReserve)
    \/ \E ok \in BOOLEAN, fee \in ConcFees : PayFeeReply(ok, IF ok THEN fee ELSE 0)
    \/ \E how \in MeltBehaviours, n \in 0..MaxFee : PayMeltReply(how, n)
    \/ CheckCall(ConcProofs)
    \/ CheckReply
    \/ \E amount \in ConcAmounts, hash \in Hashes : RequestTokensCall(amount, hash)
    \/ \E how \in MintBehaviours : RequestTokensReply(how)

\* X is called as the operation that ran alone was, and is answered as it was
Replays ==
    /\ args' = other.solo.args
    /\ Len(replies') <= Len(other.solo.replies)
    /\ \A j \in 1..Len(replies') : replies'[j] = other.solo.replies[j]

StepConc == NextRunning /\ (other.cur = "X" => Replays)

\* the operation that ran alone has ended: the same wallet is now used for
\* X and Y
CallAgain ==
    /\ other.cur = "solo"
    /\ pc = "done"
    /\ other' = [cur |-> "X", solo |-> Running,
                 susp |-> [IdleOperation EXCEPT !.rnd = SecondStream],
                 seen |-> 0, mixed |-> FALSE]
    /\ Resume(IdleOperation)
    /\ UNCHANGED <<keys, mint, persisted>>

\* how far ctx has come
Progress(ctx) ==
    Len(ctx.rpcs) + Len(ctx.replies) + (IF ctx.pc = "done" THEN 1 ELSE 0)

\* the running operation is suspended at its await (or has not begun, or has
\* ended) and the event loop continues the other one; mixed records that Y
\* has moved on while X was waiting for an answer
Switch ==
    /\ other.cur \in {"X", "Y"}
    /\ other' = [other EXCEPT
            !.cur = IF @ = "X" THEN "Y" ELSE "X",
            !.susp = Running,
            !.seen = IF other.cur = "X" THEN Progress(other.susp) ELSE @,
            !.mixed = \/ @
                      \/ /\ other.cur = "Y"
                         /\ other.susp.pc \notin {"idle", "done"}
                         /\ Progress(Running) > other.seen]
    /\ Resume(other.susp)
    /\ UNCHANGED <<keys, mint, persisted>>

NextConc == StepConc \/ CallAgain \/ Switch

SpecConc == InitConc /\ [][NextConc]_vars

\* ============================================================ the claims

SendRunning == args.op = "send"
SendDone == args.op = "send" /\ pc = "done"

\* the split requests handed to the mint so far
SplitRpcs == SelectSeq(rpcs, LAMBDA q : q.rpc = "split")

\* the lengths k for which the first k proofs of ps cover amount
Covering(ps, amount) ==
    {k \in 0..Len(ps) : SumAmounts(SubSeq(ps, 1, k)) >= amount}

\* the length of the shortest prefix of ps covering amount, Len(ps) if none does
ShortestCover(ps, amount) ==
    IF Covering(ps, amount) = {} THEN Len(ps)
    ELSE CHOOSE k \in Covering(ps, amount) :
            \A j \in Covering(ps, amount) : k <= j

\* C1: send selects greedily in input order: proofsToSend is the shortest
\* prefix of the input whose amounts sum to at least amount (the whole input
\* if none does) and change is the remaining suffix, in the original order;
\* together they are the input, nothing dropped, duplicated or reordered.
C1_GreedySelection ==
    SendRunning =>
        LET k == ShortestCover(args.proofs, args.amount)
        IN  /\ frame.sel.proofsToSend = SubSeq(args.proofs, 1, k)
            /\ frame.sel.change = SubSeq(args.proofs, k + 1, Len(args.proofs))
            /\ frame.sel.proofsToSend \o frame.sel.change = args.proofs

\* a send that took two proofs to cover the amount exactly and left one over
C1_Witness ==
    /\ SendRunning
    /\ Len(frame.sel.proofsToSend) = 2
    /\ Len(frame.sel.change) = 1
    /\ SumAmounts(frame.sel.proofsToSend) = args.amount

\* C2: send hands a split to the mint exactly when the selected proofs sum to
\* more than amount, and then exactly one and nothing else; with too little
\* in all the input it throws the insufficient-funds error with no request
\* made; with an exact selection it returns the selected and the remaining
\* input proofs themselves with no request made.
C2_SplitIffOverpaid ==
    SendRunning =>
        LET selected == SumAmounts(frame.sel.proofsToSend)
        IN  /\ Len(SplitRpcs) = (IF selected > args.amount THEN 1 ELSE 0)
            /\ Len(rpcs) = Len(SplitRpcs)
            /\ SumAmounts(args.proofs) < args.amount =>
                    /\ pc = "done"
                    /\ result = Throw("Not enough funds available")
            /\ selected = args.amount =>
                    /\ pc = "done"
                    /\ result = Return([returnChange |-> frame.sel.change,
                                        send |-> frame.sel.proofsToSend])
                    /\ result.value.send \o result.value.returnChange = args.proofs

\* an exact send of several proofs that returned without a request
C2_Witness ==
    /\ SendDone
    /\ result.status = "ok"
    /\ rpcs = <<>>
    /\ Len(result.value.send) = 2
    /\ Len(result.value.returnChange) = 1

\* the mint answered the split of send as the contract says: fst sums to
\* amount1 and snd to amount2
HonouredSplit ==
    /\ Len(replies) = 1
    /\ replies[1].ok
    /\ SumAmounts(replies[1].fst) = frame.amounts.amount1
    /\ SumAmounts(replies[1].snd) = frame.amounts.amount2

\* scenario S2: send(8, [p1(1), p4(4), p8(8)])
S2Call == args = [op |-> "send", amount |-> 8,
                  proofs |-> ProofList(<<1, 4, 8>>, OwnMint)]

\* C3 as stated: S2 returns { send: [p8], returnChange: [p1, p4] } and makes
\* no mint call.
C3_AsStated ==
    S2Call =>
        /\ rpcs = <<>>
        /\ pc = "done"
        /\ result = Return([send |-> <<args.proofs[3]>>,
                            returnChange |-> <<args.proofs[1], args.proofs[2]>>])

\* C3 amended: in S2 the selection runs in input order, so all three proofs
\* (13) are selected and exactly one split is made, of all three proofs, with
\* amount1 = 5 and amount2 = 8 and outputs [1, 4] then [8]; with a mint that
\* honours the split, send is one new proof of 8 and returnChange two new
\* proofs of 1 and 4, none of them an input proof.
C3_S2Splits ==
    S2Call =>
        /\ Len(rpcs) = 1
        /\ rpcs[1].rpc = "split"
        /\ rpcs[1].payload.proofs = args.proofs
        /\ rpcs[1].payload.amount = 8
        /\ Amounts(rpcs[1].payload.outputs) = <<1, 4, 8>>
        /\ frame.amounts = [amount1 |-> 5, amount2 |-> 8]
        /\ (pc = "done" /\ result.status = "ok" /\ HonouredSplit) =>
                /\ Amounts(result.value.send) = <<8>>
                /\ Amounts(result.value.returnChange) = <<1, 4>>
                /\ \A i \in 1..3 :
                        /\ \A j \in 1..1 : result.value.send[j] # args.proofs[i]
                        /\ \A j \in 1..2 : result.value.returnChange[j] # args.proofs[i]

\* S2 answered by a mint that honours the split
C3_Witness == S2Call /\ pc = "done" /\ result.status = "ok" /\ HonouredSplit

\* scenario S3: send(3, [p4(4), p2(2)])
S3Call == args = [op |-> "send", amount |-> 3,
                  proofs |-> ProofList(<<4, 2>>, OwnMint)]

\* C4 as stated: S3 splits with amount1 = 3 and amount2 = 3, the outputs being
\* [1,2] and [1,2], four in all.
C4_AsStated ==
    S3Call =>
        /\ Len(rpcs) = 1
        /\ frame.amounts = [amount1 |-> 3, amount2 |-> 3]
        /\ Amounts(rpcs[1].payload.outputs) = <<1, 2, 1, 2>>

\* C4 amended: in S3 the first proof (4) already covers 3, so it alone is
\* split, with amount1 = 1 and amount2 = 3, the outputs being [1] and [1,2],
\* three in all; send is the unblinded snd half and returnChange the unblinded
\* fst half followed by the residual change [p2].
C4_S3Splits ==
    S3Call =>
        /\ Len(rpcs) = 1
        /\ rpcs[1].rpc = "split"
        /\ rpcs[1].payload.proofs = <<args.proofs[1]>>
        /\ rpcs[1].payload.amount = 3
        /\ frame.amounts = [amount1 |-> 1, amount2 |-> 3]
        /\ Amounts(rpcs[1].payload.outputs) = <<1, 1, 2>>
        /\ (pc = "done" /\ result.status = "ok") =>
                LET v == result.value
                    outs == rpcs[1].payload.outputs
                IN  /\ Len(v.send) = Len(replies[1].snd)
                    /\ \A i \in 1..Len(v.send) :
                            /\ v.send[i].amount = replies[1].snd[i].amount
                            /\ v.send[i].secret = outs[1 + i].B_.Y
                    /\ Len(v.returnChange) = Len(replies[1].fst) + 1
                    /\ \A i \in 1..Len(replies[1].fst) :
                            /\ v.returnChange[i].amount = replies[1].fst[i].amount
                            /\ v.returnChange[i].secret = outs[i].B_.Y
                    /\ v.returnChange[Len(v.returnChange)] = args.proofs[2]
                    /\ HonouredSplit =>
                            /\ Amounts(v.send) = <<1, 2>>
                            /\ Amounts(v.returnChange) = <<1, 2>>
                            /\ \A i \in 1..2 : v.send[i].C.ok
                            /\ v.returnChange[1].C.ok

\* S3 answered by a mint that honours the split
C4_Witness == S3Call /\ pc = "done" /\ result.status = "ok" /\ HonouredSplit

\* C6: value conservation in send: when send succeeds, the mint having
\* honoured the split (or none having been needed), the returned send proofs
\* sum to amount and send plus returnChange to the total of the input; and in
\* every split payload of send the output amounts sum to the amounts of the
\* submitted proofs.
C6_ValueConserved ==
    SendRunning =>
        /\ \A i \in 1..Len(SplitRpcs) :
                SumAmounts(SplitRpcs[i].payload.outputs)
                    = SumAmounts(SplitRpcs[i].payload.proofs)
        /\ (pc = "done" /\ result.status = "ok"
                /\ (rpcs # <<>> => HonouredSplit)) =>
              /\ SumAmounts(result.value.send) = args.amount
              /\ SumAmounts(result.value.send)
                    + SumAmounts(result.value.returnChange)
                        = SumAmounts(args.proofs)

\* a send that split two proofs, kept a third, and was answered as agreed
C6_Witness ==
    /\ SendDone
    /\ result.status = "ok"
    /\ HonouredSplit
    /\ Len(rpcs[1].payload.proofs) = 2
    /\ Len(frame.sel.change) = 1
    /\ frame.amounts.amount1 > 0

\* the amount a split was asked to send (amount2): the amount of send, or the
\* total of the entry in receive
SentAmount(q) ==
    IF args.op = "send" THEN args.amount ELSE SumAmounts(q.payload.proofs)

\* the amount a split was asked to keep (amount1)
KeptAmount(q) == SumAmounts(q.payload.proofs) - SentAmount(q)

\* the secrets and the blinding factors the outputs i..j were built from
SecretsOf(outs, i, j) == [x \in 1..(j - i + 1) |-> outs[i + x - 1].B_.Y]
FactorsOf(outs, i, j) == [x \in 1..(j - i + 1) |-> outs[i + x - 1].B_.r]

\* C5: split ordering: in every split payload the wallet builds (send and
\* receive) the outputs are those for amount1 (kept) followed by those for
\* amount2 (sent), payload.amount is amount2 and the boundary lies at the
\* number of amount1 outputs; the fst reply is unblinded with the secrets and
\* factors of the outputs before the boundary and snd with those after it,
\* position by position.
C5_SplitOrdering ==
    /\ \A j \in 1..Len(rpcs) :
          rpcs[j].rpc = "split" =>
            LET outs == rpcs[j].payload.outputs
                n1 == Len(splitAmount(KeptAmount(rpcs[j])))
            IN  /\ rpcs[j].payload.amount = SentAmount(rpcs[j])
                /\ n1 <= Len(outs)
                /\ Amounts(SubSeq(outs, 1, n1)) = splitAmount(KeptAmount(rpcs[j]))
                /\ Amounts(SubSeq(outs, n1 + 1, Len(outs)))
                        = splitAmount(SentAmount(rpcs[j]))
    /\ \A x \in 1..Len(unblinds) :
          LET u == unblinds[x]
              outs == rpcs[u.rpc].payload.outputs
              n1 == Len(splitAmount(KeptAmount(rpcs[u.rpc])))
          IN  /\ u.half = "fst" =>
                    /\ u.promises = replies[u.rpc].fst
                    /\ u.secrets = SecretsOf(outs, 1, n1)
                    /\ u.rs = FactorsOf(outs, 1, n1)
              /\ u.half = "snd" =>
                    /\ u.promises = replies[u.rpc].snd
                    /\ u.secrets = SecretsOf(outs, n1 + 1, Len(outs))
                    /\ u.rs = FactorsOf(outs, n1 + 1, Len(outs))

\* a send whose split kept one output and sent two, answered and unblinded
C5_Witness ==
    /\ SendDone
    /\ result.status = "ok"
    /\ Len(unblinds) = 2
    /\ Len(unblinds[1].secrets) = 1
    /\ Len(unblinds[2].secrets) = 2
    /\ \A i \in 1..2 : result.value.send[i].C.ok

ReceiveDone == args.op = "receive" /\ pc = "done"

Mints(entries) == [i \in 1..Len(entries) |-> entries[i].mint]

\* the two outputs of a finished receive
Received == result.value.token.token
NotReceived ==
    IF result.value.tokensWithErrors = undefined THEN <<>>
    ELSE result.value.tokensWithErrors[1].token

\* the requests that failed: the mint answered with an error, or the answer
\* could not be unblinded
UnblindFailed(j) ==
    \E x \in 1..Len(unblinds) :
        /\ unblinds[x].rpc = j
        /\ constructProofsThrows(unblinds[x].promises, unblinds[x].rs,
                                 unblinds[x].secrets, unblinds[x].keys)

Failed(j) == ~replies[j].ok \/ UnblindFailed(j)

\* the non-empty entries of the decoded token, per mint in first-seen order
NonEmptyMints(decoded) ==
    LET ms == Mints(SelectSeq(decoded, LAMBDA e : Len(e.proofs) > 0))
    IN  SelectSeq([i \in 1..Len(ms) |-> [m |-> ms[i], first |-> \A j \in 1..(i - 1) : ms[j] # ms[i]]],
                  LAMBDA x : x.first)

\* C7: partial success in receive: a decodable token never makes receive
\* throw; every non-empty entry is processed whatever happened to the entries
\* before it and ends in exactly one output: the success token, under its
\* mint url with newly issued proofs, or tokensWithErrors, as it was with its
\* original proofs; tokensWithErrors is undefined exactly when no entry
\* failed; both outputs keep the order of the entries.
C7_PartialSuccess ==
    ReceiveDone =>
        /\ result.status = "ok"
        /\ LET tok == SelectSeq(frame.token, LAMBDA e : Len(e.proofs) > 0)
               failedMints == {rpcs[j].url : j \in {k \in 1..Len(rpcs) : Failed(k)}}
           IN  /\ Mints(tok) = [i \in 1..Len(NonEmptyMints(args.decoded)) |->
                                    NonEmptyMints(args.decoded)[i].m]
               /\ NotReceived = SelectSeq(tok, LAMBDA e : e.mint \in failedMints)
               /\ Mints(Received)
                    = Mints(SelectSeq(tok, LAMBDA e : e.mint \notin failedMints))
               /\ \A i \in 1..Len(Received) :
                    \A k \in 1..Len(Received[i].proofs) :
                        /\ Received[i].proofs[k].secret > 0
                        /\ \A e \in 1..Len(tok) :
                            \A o \in 1..Len(tok[e].proofs) :
                                Received[i].proofs[k] # tok[e].proofs[o]
               /\ (result.value.tokensWithErrors = undefined)
                        <=> (failedMints = {})

\* a receive whose first entry failed and whose second entry was reissued
C7_Witness ==
    /\ ReceiveDone
    /\ Len(frame.token) = 2
    /\ Len(NotReceived) = 1
    /\ NotReceived[1] = frame.token[1]
    /\ Len(Received) = 1
    /\ Received[1].mint = frame.token[2].mint
    /\ Len(Received[1].proofs) = 2

\* the positions of the getKeys requests for url
KeysRpcs(url) == {j \in 1..Len(rpcs) : rpcs[j].rpc = "getKeys" /\ rpcs[j].url = url}

\* C8: keyset fetching in receive: no getKeys for the wallet's own mint url;
\* exactly one getKeys for each other mint url of a non-empty entry, made
\* before the split of that entry; and when such a mint errors, its entry and
\* no other is in tokensWithErrors.
C8_KeysFetchedOnce ==
    args.op = "receive" =>
        LET wanted == {NonEmptyMints(args.decoded)[i].m :
                            i \in 1..Len(NonEmptyMints(args.decoded))} \ {mint}
        IN  /\ KeysRpcs(mint) = {}
            /\ \A url \in MintUrls \ wanted : KeysRpcs(url) = {}
            /\ \A url \in wanted : Cardinality(KeysRpcs(url)) <= 1
            /\ pc = "done" => \A url \in wanted : Cardinality(KeysRpcs(url)) = 1
            /\ \A j \in 1..Len(rpcs) :
                    (rpcs[j].rpc = "split" /\ rpcs[j].url # mint) =>
                        /\ j > 1
                        /\ rpcs[j - 1] = [rpc |-> "getKeys", url |-> rpcs[j].url]
                        /\ replies[j - 1].ok
            /\ pc = "done" =>
                    \A url \in wanted :
                        (\E j \in 1..Len(rpcs) : rpcs[j].url = url /\ Failed(j))
                            <=> (\E i \in 1..Len(NotReceived) :
                                    NotReceived[i].mint = url)

\* scenario S4: an entry of the own mint and one of another mint, whose keys
\* are fetched and whose split the mint refuses
C8_Witness ==
    /\ ReceiveDone
    /\ Mints(frame.token) = <<OwnMint, "mintB">>
    /\ Len(rpcs) = 3
    /\ rpcs[2] = [rpc |-> "getKeys", url |-> "mintB"]
    /\ replies[2].ok
    /\ ~replies[3].ok
    /\ Mints(Received) = <<OwnMint>>
    /\ NotReceived = <<frame.token[2]>>

PayRunning == args.op = "pay"

MeltRpcs == SelectSeq(rpcs, LAMBDA q : q.rpc = "melt")
FeeRpcs == SelectSeq(rpcs, LAMBDA q : q.rpc = "checkFees")

\* C9 as stated: payLnInvoice calls checkFees exactly when the caller passed
\* no feeReserve, and then before the melt; a passed feeReserve, 0 included,
\* means no checkFees and decides the blank outputs; either way the melt made
\* is one and carries the given invoice and proofs.
C9_AsStated ==
    PayRunning =>
        /\ Len(FeeRpcs) = (IF args.feeReserve = undefined THEN 1 ELSE 0)
        /\ Len(FeeRpcs) = 1 => rpcs[1].rpc = "checkFees"
        /\ Len(MeltRpcs) <= 1
        /\ (pc = "done" /\ result.status = "ok") => Len(MeltRpcs) = 1
        /\ \A j \in 1..Len(MeltRpcs) :
                /\ MeltRpcs[j].payload.pr = args.invoice
                /\ MeltRpcs[j].payload.proofs = args.proofsToSend
                /\ args.feeReserve # undefined =>
                        Len(MeltRpcs[j].payload.outputs)
                            = BlankCount(args.feeReserve[1])

\* C10: blank count: a melt carries ceil(log2(feeReserve)) blank outputs for a
\* feeReserve >= 1 (none for 1, two for 4) and none for feeReserve = 0; each
\* has amount 0, and there are as many secrets and blinding factors as blank
\* outputs.
C10_BlankCount ==
    (PayRunning /\ Len(MeltRpcs) > 0) =>
        LET f == frame.feeReserve[1]
            outs == MeltRpcs[1].payload.outputs
            k == Len(outs)
        IN  /\ f >= 1 => /\ Pow2(k) >= f
                         /\ k > 0 => Pow2(k - 1) < f
            /\ f = 1 => k = 0
            /\ f = 4 => k = 2
            /\ f = 0 => k = 0
            /\ \A i \in 1..k : outs[i].amount = 0
            /\ Len(frame.blank.secrets) = k
            /\ Len(frame.blank.rs) = k
            /\ outs = frame.blank.blindedMessages

\* a melt sent with the three blank outputs of a fee reserve of 5
C10_Witness ==
    /\ PayRunning
    /\ Len(MeltRpcs) = 1
    /\ frame.feeReserve = Some(5)
    /\ Len(MeltRpcs[1].payload.outputs) = 3

CheckRunning == args.op = "check"

\* the positions the mint reported as not spendable
SpentPositions == {i \in 1..Len(args.proofs) : replies[1].spendable[i] = FALSE}

\* C11: checkProofsSpent returns exactly the input proofs whose spendable[i]
\* in the mint's reply is false, in input order and as they were handed in; a
\* proof reported spendable is never returned; the wallet's state (keys, mint,
\* storage) is as it was.
C11_ReturnsSpent ==
    CheckRunning =>
        /\ keys = KeysOf(OwnMint)
        /\ mint = OwnMint
        /\ persisted = <<>>
        /\ (pc = "done" /\ replies[1].ok) =>
                /\ result.status = "ok"
                /\ Len(result.value) = Cardinality(SpentPositions)
                /\ \A i \in SpentPositions :
                        result.value[Cardinality({j \in SpentPositions : j <= i})]
                            = args.proofs[i]
                /\ \A i \in (1..Len(args.proofs)) \ SpentPositions :
                        \A k \in 1..Len(result.value) :
                            result.value[k] # args.proofs[i]

\* scenario S6: three proofs, spendable = [true, false, true]: the middle one
C11_Witness ==
    /\ CheckRunning
    /\ pc = "done"
    /\ Len(args.proofs) = 3
    /\ replies[1].ok
    /\ replies[1].spendable = <<TRUE, FALSE, TRUE>>
    /\ result = Return(<<args.proofs[2]>>)

\* C12: secret confidentiality in check: the payload of a check request holds
\* one record per input proof, in input order, with the secret field and no
\* other: no C, amount or id of a proof is part of it, whatever fields the
\* input proofs carry.
C12_SecretsOnly ==
    \A j \in 1..Len(rpcs) :
        rpcs[j].rpc = "check" =>
            /\ DOMAIN rpcs[j].payload = {"proofs"}
            /\ Len(rpcs[j].payload.proofs) = Len(args.proofs)
            /\ \A i \in 1..Len(args.proofs) :
                    /\ DOMAIN rpcs[j].payload.proofs[i] = {"secret"}
                    /\ rpcs[j].payload.proofs[i].secret = args.proofs[i].secret

\* a check of two proofs that carry C, amount and id besides the secret
C12_Witness ==
    /\ CheckRunning
    /\ Len(rpcs) = 1
    /\ Len(args.proofs) = 2
    /\ DOMAIN args.proofs[1] = {"amount", "secret", "C", "id"}

\* the operations that make one mint round-trip after another and catch nothing
RoundTripOperation == args.op \in {"requestTokens", "send", "pay"}

\* this step delivers a failed answer to the pending RPC
FailedReplyStep ==
    /\ RoundTripOperation
    /\ Len(replies') = Len(replies) + 1
    /\ ~replies'[Len(replies')].ok

\* C13: failure transition of a mint round-trip: in requestTokens, send and
\* payLnInvoice, when the mint RPC (mint, split, melt, checkFees) fails, the
\* operation ends throwing that error, returns no proofs, issues no further
\* RPC, unblinds nothing, and leaves keys, mint and the caller's arguments as
\* they were; from then on every RPC issued has its (failed last) answer.
C13_FailureTransition ==
    /\ [][FailedReplyStep =>
            /\ result' = Throw(replies'[Len(replies')].error)
            /\ pc' = "done"
            /\ rpcs' = rpcs
            /\ unblinds' = unblinds
            /\ keys' = keys /\ mint' = mint
            /\ args' = args]_vars
    /\ []((RoundTripOperation /\ \E j \in 1..Len(replies) : ~replies[j].ok) =>
            /\ pc = "done"
            /\ result.status = "error"
            /\ Len(rpcs) = Len(replies)
            /\ ~replies[Len(replies)].ok
            /\ \A j \in 1..(Len(replies) - 1) : replies[j].ok
            /\ \A k \in 1..Len(unblinds) : unblinds[k].rpc # Len(rpcs)
            /\ keys = KeysOf(OwnMint) /\ mint = OwnMint)

\* requestTokens, outputs prepared, the mint request failed
C13_Witness ==
    /\ args.op = "requestTokens"
    /\ pc = "done"
    /\ Len(frame.blinded.secrets) >= 2
    /\ replies = <<[ok |-> FALSE, error |-> "MintError"]>>
    /\ result = Throw("MintError")

\* the RPCs whose outputs are lost with a lost answer
HazardousRpcs == {j \in 1..Len(rpcs) : rpcs[j].rpc \in {"mint", "split", "melt"}}

\* C14: before a mint, split or melt RPC is dispatched the wallet has persisted
\* (outputs, rs, secrets, operationId) for it: whenever such an RPC has been
\* issued, a record holding its outputs is in storage.
C14_AsStated ==
    \A j \in HazardousRpcs :
        \E k \in 1..Len(persisted) :
            persisted[k].outputs = rpcs[j].payload.outputs

\* C15: a crypto or keyset error raised while unblinding the mint's reply is
\* fatal to the operation in which it occurs: requestTokens, send,
\* payLnInvoice and receive each end throwing when a constructProofs call of
\* theirs threw.
C15_AsStated ==
    (/\ pc = "done"
     /\ args.op \in {"requestTokens", "send", "pay", "receive"}
     /\ \E j \in 1..Len(rpcs) : UnblindFailed(j))
        => result.status = "error"

PayReturned == args.op \in {"pay", "payWithToken"} /\ pc = "done" /\ result.status = "ok"

\* C16: payLnInvoice result mapping: isPaid is the mint's paid flag, false
\* when the melt reply has no paid field; preimage is passed through; change
\* is empty when the reply has no change, and otherwise one proof per change
\* promise, the i-th made of the i-th promise with the secret and blinding
\* factor of the i-th blank output sent in that melt and the wallet's key for
\* the promise's amount.
C16_ResultMapping ==
    PayReturned =>
        LET payData == replies[Len(replies)]
            sent == rpcs[Len(rpcs)].payload.outputs
            blank == frame.blank
            change == result.value.change
        IN  /\ rpcs[Len(rpcs)].rpc = "melt"
            /\ Len(rpcs) = Len(replies)
            /\ result.value.isPaid = (payData.paid = Some(TRUE))
            /\ result.value.preimage = payData.preimage
            /\ payData.change = undefined => change = <<>>
            /\ payData.change # undefined =>
                /\ Len(change) = Len(payData.change[1])
                /\ \A i \in 1..Len(change) :
                    LET promise == payData.change[1][i]
                    IN  /\ sent[i].B_ = blindMessage(blank.secrets[i], blank.rs[i]).B_
                        /\ change[i].amount = promise.amount
                        /\ change[i].id = promise.id
                        /\ change[i].secret = blank.secrets[i]
                        /\ change[i].C = unblindSignature(promise.C_, blank.rs[i],
                                            KeysOf(OwnMint)[promise.amount])
                        /\ change[i].C.ok

\* scenario S5: checkFees answers 4, two blank outputs are sent, the mint
\* answers paid, "pre" and one change promise of amount 1
C16_Witness ==
    /\ PayReturned
    /\ args.op = "pay"
    /\ args.feeReserve = undefined
    /\ Len(replies) = 2
    /\ replies[1].fee = 4
    /\ Len(rpcs[2].payload.outputs) = 2
    /\ replies[2].change # undefined
    /\ Len(replies[2].change[1]) = 1
    /\ result.value.isPaid
    /\ result.value.preimage = Some("pre")
    /\ Len(result.value.change) = 1
    /\ result.value.change[1].amount = 1
    /\ result.value.change[1].C.ok

\* the positions of the split requests of a receive
ReceiveSplits ==
    {j \in 1..Len(rpcs) : args.op = "receive" /\ rpcs[j].rpc = "split"}

\* the non-empty entries receive goes through
ReceiveEntries == SelectSeq(frame.token, LAMBDA e : Len(e.proofs) > 0)

\* C17: reissue on receive: every split of a receive goes to the mint url of
\* one non-empty entry, with proofs = the entry's proofs, amount = the total
\* of the entry's proof amounts and outputs summing to that total, none of
\* them on the kept side; no entry gets two splits, and a finished receive
\* has made one for every non-empty entry whose keys it had or could fetch;
\* the reply is unblinded with the keys of the entry's mint, and an entry that
\* succeeded has new proofs summing to the entry total.
C17_ReissueOnReceive ==
    args.op = "receive" =>
        /\ \A j \in ReceiveSplits :
            /\ \E e \in 1..Len(ReceiveEntries) :
                LET entry == ReceiveEntries[e]
                    total == SumAmounts(entry.proofs)
                IN  /\ rpcs[j].url = entry.mint
                    /\ rpcs[j].payload.proofs = entry.proofs
                    /\ rpcs[j].payload.amount = total
                    /\ SumAmounts(rpcs[j].payload.outputs) = total
            /\ \A k \in ReceiveSplits : rpcs[k].url = rpcs[j].url => k = j
            /\ \A x \in 1..Len(unblinds) :
                unblinds[x].rpc = j =>
                    /\ unblinds[x].keys = KeysOf(rpcs[j].url)
                    /\ unblinds[x].half = "fst" => unblinds[x].secrets = <<>>
                    /\ unblinds[x].half = "snd" =>
                            Len(unblinds[x].secrets) = Len(rpcs[j].payload.outputs)
        /\ ReceiveDone =>
            /\ \A e \in 1..Len(ReceiveEntries) :
                \/ \E j \in ReceiveSplits : rpcs[j].url = ReceiveEntries[e].mint
                \/ \E j \in 1..Len(rpcs) :
                    /\ rpcs[j] = [rpc |-> "getKeys", url |-> ReceiveEntries[e].mint]
                    /\ ~replies[j].ok
            /\ \A i \in 1..Len(Received) :
                \E e \in 1..Len(ReceiveEntries) :
                    /\ ReceiveEntries[e].mint = Received[i].mint
                    /\ SumAmounts(Received[i].proofs)
                            = SumAmounts(ReceiveEntries[e].proofs)

\* an entry of another mint, worth 3, reissued at that mint
C17_Witness ==
    /\ ReceiveDone
    /\ Len(Received) = 1
    /\ Received[1].mint # mint
    /\ SumAmounts(Received[1].proofs) = 3
    /\ \E j \in ReceiveSplits :
        /\ rpcs[j].url = Received[1].mint
        /\ rpcs[j].payload.amount = 3

\* the characters of str
Chars(str) == {str[i] : i \in 1..Len(str)}

\* C18: base64url mapping: for a standard base64 string s (with trailing =
\* padding) the base64url form base64urlFromBase64(s) has no +, / or =, and
\* base64urlToBase64 of it is s without its padding; for an unpadded
\* base64url string u, base64urlFromBase64(base64urlToBase64(u)) = u.
C18_Base64urlInverse ==
    args.op = "base64" =>
        /\ (args.kind = "std" /\ frame.applied = <<"from">>) =>
                Chars(frame.str) \cap {"+", "/", "="} = {}
        /\ (args.kind = "std" /\ frame.applied = <<"from", "to">>) =>
                /\ frame.str = args.body
                /\ args.str = frame.str \o SubSeq(args.str, Len(frame.str) + 1,
                                                  Len(args.str))
                /\ Chars(SubSeq(args.str, Len(frame.str) + 1, Len(args.str)))
                        \subseteq {"="}
        /\ (args.kind = "url" /\ frame.applied = <<"to", "from">>) =>
                frame.str = args.str

\* "+/A=" has gone to base64url and back: "+/A"
C18_Witness ==
    /\ args.op = "base64"
    /\ args.kind = "std"
    /\ args.str = <<"+", "/", "A", "=">>
    /\ frame.applied = <<"from", "to">>
    /\ frame.str = <<"+", "/", "A">>

\* the proofs of seq, a sequence of token entries, one entry after the other
RECURSIVE Flatten(_)
Flatten(seq) ==
    IF seq = <<>> THEN <<>> ELSE Flatten(SubSeq(seq, 1, Len(seq) - 1)) \o seq[Len(seq)].proofs

PayWithTokenRunning == args.op = "payWithToken"

\* C19: payLnInvoiceWithToken submits to melt exactly the proofs of the token
\* entries whose mint is the wallet's own mint url, in token order; no proof
\* of an entry of another mint is part of the melt request; the fee is asked
\* for first, and once it is known the melt is issued, with an empty proof
\* list when no entry matches.
C19_OwnMintProofsOnly ==
    PayWithTokenRunning =>
        LET own == SelectSeq(args.decoded, LAMBDA e : e.mint = OwnMint)
        IN  /\ rpcs[1] = [rpc |-> "checkFees", url |-> OwnMint,
                          payload |-> [pr |-> args.invoice]]
            /\ (Len(replies) >= 1 /\ replies[1].ok) =>
                    /\ Len(rpcs) = 2
                    /\ rpcs[2].rpc = "melt"
            /\ \A j \in 1..Len(rpcs) :
                rpcs[j].rpc = "melt" =>
                    /\ rpcs[j].payload.proofs = Flatten(own)
                    /\ \A e \in 1..Len(args.decoded) :
                        args.decoded[e].mint # OwnMint =>
                            \A k \in 1..Len(args.decoded[e].proofs) :
                                \A i \in 1..Len(rpcs[j].payload.proofs) :
                                    rpcs[j].payload.proofs[i]
                                        # args.decoded[e].proofs[k]

\* a token with an entry of another mint and an entry of the wallet's mint:
\* the melt carries the two proofs of the latter
C19_Witness ==
    /\ PayWithTokenRunning
    /\ Len(args.decoded) = 2
    /\ args.decoded[1].mint # OwnMint
    /\ Len(args.decoded[1].proofs) = 1
    /\ args.decoded[2].mint = OwnMint
    /\ Len(rpcs) = 2
    /\ rpcs[2].rpc = "melt"
    /\ rpcs[2].payload.proofs = args.decoded[2].proofs
    /\ Len(rpcs[2].payload.proofs) = 2

Interleaved == other.cur \in {"X", "Y"}

\* the operation under observation and the one interleaved with it
Observed == IF other.cur = "X" THEN Running ELSE other.susp
Interferer == IF other.cur = "Y" THEN Running ELSE other.susp

\* every constructProofs call of ctx got secrets and blinding factors of
\* outputs that ctx itself sent in the request whose reply it unblinds
OwnSecrets(ctx) ==
    \A x \in 1..Len(ctx.unblinds) :
        LET u == ctx.unblinds[x]
            outputs == ctx.rpcs[u.rpc].payload.outputs
        IN  /\ Len(u.rs) = Len(u.secrets)
            /\ \A i \in 1..Len(u.secrets) :
                \E k \in 1..Len(outputs) :
                    outputs[k].B_ = blindMessage(u.secrets[i], u.rs[i]).B_

\* C20: interleaving independence: keys and mint of the wallet are never
\* written, so an operation interleaved at its awaits with another operation
\* on the same wallet (holding other proofs) issues the requests it issues
\* when alone and, given the same answers, ends with the same result; and
\* each operation unblinds with the secrets and blinding factors of its own
\* outputs.
C20_InterleavingIndependence ==
    Interleaved =>
        /\ keys = KeysOf(OwnMint)
        /\ mint = OwnMint
        /\ persisted = <<>>
        /\ Observed.pc # "idle" =>
            /\ Observed.args = other.solo.args
            /\ Len(Observed.rpcs) <= Len(other.solo.rpcs)
            /\ \A j \in 1..Len(Observed.rpcs) :
                    Observed.rpcs[j] = other.solo.rpcs[j]
            /\ Len(Observed.rpcs) > Len(Observed.replies) =>
                    Observed.pc # "done"
            /\ Len(Observed.replies) = Len(other.solo.replies) =>
                    /\ Observed.pc = "done"
                    /\ Observed.rpcs = other.solo.rpcs
                    /\ Observed.unblinds = other.solo.unblinds
                    /\ Observed.result = other.solo.result
            /\ Observed.pc = "done" =>
                    Len(Observed.replies) = Len(other.solo.replies)
        /\ OwnSecrets(Observed)
        /\ OwnSecrets(Interferer)

\* a receive of a token of another mint has ended as it did alone, a second
\* receive for the same mint having fetched that mint's keys in between
C20_Witness ==
    /\ Interleaved
    /\ other.mixed
    /\ Observed.pc = "done"
    /\ Observed.args.op = "receive"
    /\ Len(Observed.rpcs) >= 2
    /\ Len(Observed.unblinds) >= 1
    /\ Interferer.args.op = "receive"
    /\ Len(Interferer.replies) >= 1
    /\ Interferer.replies[1].ok

====
